---- MODULE Spec2Model ----
(***************************************************************************)
(* Ride-hailing backend (src/main.py, src/schemas.py): the rider, driver   *)
(* and ride collections of the document store and the HTTP handlers that   *)
(* act on them.                                                            *)
(*                                                                         *)
(* Two specifications share the same handler code:                         *)
(*   SeqSpec  every handler runs from call to return with nothing in       *)
(*            between (one request at a time);                             *)
(*   Spec     handlers run on worker threads and interleave at the         *)
(*            granularity of individual store calls, as FastAPI runs       *)
(*            plain `def` handlers on a thread pool.                       *)
(*                                                                         *)
(* The read-only endpoints (GET /, /test, /drivers, /rides) change no      *)
(* state and are left out.  The store is taken to be connected (`db` is    *)
(* set and truthy); store calls do not fail.  A document's _id is its      *)
(* position in its collection (documents are never deleted), find_one      *)
(* returns the first match in insertion order.                             *)
(***************************************************************************)
EXTENDS Integers, Sequences, FiniteSets, Bags, TLC

VARIABLES rider, driver, ride, threads

vars == <<rider, driver, ride, threads>>

store == <<rider, driver, ride>>

-----------------------------------------------------------------------------
(* Bounds of the model *)

\* documents per collection when requests run one at a time (SeqSpec)
MaxRiders == 2
MaxDrivers == 1
MaxRides == 2

\* rides when every driver is registered as available (SeqAvailableSpec):
\* long enough for a driver to be taken three times
MaxRidesAvailable == 3

\* rides when fares are quoted (FareSpec)
MaxQuotes == 2

\* documents per collection when handlers interleave (Spec)
MaxRidersW == 1
MaxDriversW == 1
MaxRidesW == 2

-----------------------------------------------------------------------------
(* Identifiers.  An ObjectId is a positive integer; its string form, as    *)
(* stored in ride.rider_id / ride.driver_id and passed in URLs, is a       *)
(* tagged record.  A URL path segment may also be a string that is no      *)
(* ObjectId at all.                                                        *)

None == [kind |-> "none"]

Malformed == [kind |-> "bad"]

\* str(ObjectId)
str(oid) == [kind |-> "hex", n |-> oid]

\* bson.ObjectId.is_valid
is_valid(s) == s.kind = "hex"

\* ObjectId(s) for a valid s
ObjectId(s) == s.n

\* Python truthiness of an Optional[str] id / of a document or None
Truthy(s) == s # None

-----------------------------------------------------------------------------
(* Inputs *)

Names == {"ann"}

Phones == {"555-01", "555-02"}

\* Location: lat/lng in whole degrees
Location == {[lat |-> 0, lng |-> 0], [lat |-> 0, lng |-> 1]}

\* the locations fares are quoted for
Places == Location \cup {[lat |-> 1, lng |-> 1], [lat |-> 10, lng |-> 20]}

\* class RideRequest
RideRequest == [rider_name : Names, rider_phone : Phones,
                pickup : {[lat |-> 0, lng |-> 0]}, dropoff : {[lat |-> 0, lng |-> 1]}]

\* class Rider
Rider == [name : Names, phone : Phones]

\* class Driver (is_available defaults to True, the client may send False)
Driver == [name : {"dan"}, car_model : {"sedan"}, plate : {"X1"},
           lat : {0}, lng : {0}, is_available : BOOLEAN]

\* the declared values of Ride.status
RideStatus == {"requested", "accepted", "enroute", "completed", "cancelled"}

\* the worker threads that run handlers side by side
Workers == {"w1", "w2"}

\* path parameter ride_id: the id of a ride, a well-formed id of no ride,
\* or a string that is no ObjectId
RideIdArg == {str(n) : n \in 1..(MaxRides + 1)} \cup {Malformed}

-----------------------------------------------------------------------------
(* Fare estimate.  Python floats are rendered in fixed point: angles and   *)
(* trigonometric values in units of 10^-6, distances in metres, fares in   *)
(* cents.  Products are split so that every intermediate stays in 32 bits. *)

\* one half-word of the fixed-point representation
Half == 10 ^ 3

\* the fixed-point unit: 1.0
Scale == Half * Half

Abs(x) == IF x < 0 THEN -x ELSE x

\* a * b in fixed point, a, b >= 0
MulFix(a, b) ==
    LET aH == a \div Half
        aL == a % Half
        bH == b \div Half
        bL == b % Half
    IN aH * bH + (aH * bL + aL * bH) \div Half + (aL * bL) \div Scale

\* a / b in fixed point, 0 <= a, 0 < b (long division, two digits a step)
DivFix(a, b) ==
    LET q0 == a \div b
        r0 == a % b
        q1 == (r0 * 100) \div b
        r1 == (r0 * 100) % b
        q2 == (r1 * 100) \div b
        r2 == (r1 * 100) % b
        q3 == (r2 * 100) \div b
    IN q0 * Scale + q1 * 10000 + q2 * 100 + q3

\* x / 2, rounding towards zero (symmetric in the sign, as float division is)
HalfOf(x) == IF x < 0 THEN -((-x) \div 2) ELSE x \div 2

\* math.radians: degrees * pi / 180
radians(deg) ==
    LET v == (Abs(deg) * 1745329) \div 100
    IN IF deg < 0 THEN -v ELSE v

RECURSIVE SinTerms(_, _, _)
SinTerms(t, x2, k) ==
    IF t = 0 THEN 0
    ELSE t - SinTerms(MulFix(t, x2) \div ((2 * k + 2) * (2 * k + 3)), x2, k + 1)

\* math.sin (Taylor series)
sin(x) ==
    LET a == Abs(x)
        v == SinTerms(a, MulFix(a, a), 0)
    IN IF x < 0 THEN -v ELSE v

RECURSIVE CosTerms(_, _, _)
CosTerms(t, x2, k) ==
    IF t = 0 THEN 0
    ELSE t - CosTerms(MulFix(t, x2) \div ((2 * k + 1) * (2 * k + 2)), x2, k + 1)

\* math.cos (Taylor series)
cos(x) == CosTerms(Scale, MulFix(Abs(x), Abs(x)), 0)

\* y * y <= h * Scale, without forming either product
SqLeq(y, h) ==
    LET yH == y \div Half
        yL == y % Half
        m == 2 * Half * yH * yL + yL * yL
        q == yH * yH + m \div Scale
        r == m % Scale
    IN q < h \/ (q = h /\ r = 0)

RECURSIVE SqrtSearch(_, _, _)
SqrtSearch(h, lo, hi) ==
    IF lo = hi THEN lo
    ELSE LET mid == (lo + hi + 1) \div 2
         IN IF SqLeq(mid, h) THEN SqrtSearch(h, mid, hi)
            ELSE SqrtSearch(h, lo, mid - 1)

\* math.sqrt on [0, 1]
sqrt(h) == SqrtSearch(h, 0, Scale)

RECURSIVE AtanTerms(_, _, _)
AtanTerms(a, u, n) ==
    IF a = 0 THEN 0
    ELSE a + AtanTerms((MulFix(a, u) * (2 * n + 2)) \div (2 * n + 3), u, n + 1)

\* atan(t) for 0 <= t <= 1 (Euler's series)
Atan(t) ==
    LET t2 == MulFix(t, t)
    IN AtanTerms(DivFix(t, Scale + t2), DivFix(t2, Scale + t2), 0)

\* pi / 2
HalfPi == 3141592 \div 2

\* math.atan2(y, x) for y, x >= 0, not both 0
atan2(y, x) ==
    IF y <= x THEN Atan(DivFix(y, x)) ELSE HalfPi - Atan(DivFix(x, y))

\* Earth radius in km
R == 6371

\* _haversine_km, in metres
_haversine_km(a, b) ==
    LET lat1 == radians(a.lat)
        lon1 == radians(a.lng)
        lat2 == radians(b.lat)
        lon2 == radians(b.lng)
        dlon == lon2 - lon1
        dlat == lat2 - lat1
        sdlat == Abs(sin(HalfOf(dlat)))
        sdlon == Abs(sin(HalfOf(dlon)))
        h == MulFix(sdlat, sdlat)
             + MulFix(MulFix(Abs(cos(lat1)), Abs(cos(lat2))), MulFix(sdlon, sdlon))
        c == 2 * atan2(sqrt(h), sqrt(Scale - h))
    IN R * (c \div Half) + (R * (c % Half)) \div Half

\* round(x, 2) that cuts the digits off instead of rounding
round2Truncating(x) == x \div 100

\* round(x, 2) of a non-negative amount given in 1/10000: to cents, half to even
round2(x) ==
    LET q == x \div 100
        r == x % 100
    IN IF r > 50 \/ (r = 50 /\ q % 2 = 1) THEN q + 1 ELSE q

\* base fare 2.5, in 1/1000
base == 2500

\* per-km rate 1.2, in 1/10
per_km == 12

\* _estimate_fare, in cents (the sum is formed in 1/10000: 1.2 a km is 12 a metre)
_estimate_fare(pickup, dropoff) ==
    LET distance_km == _haversine_km(pickup, dropoff)
    IN round2(base * 10 + per_km * distance_km)

\* the fare of every pair of locations, computed once
FareOf == [p \in Places, q \in Places |-> _estimate_fare(p, q)]

-----------------------------------------------------------------------------
(* The document store: three collections, each a sequence of documents;    *)
(* a document's _id is its index.                                          *)

\* collection.find_one(filter), `hits` being the ids of the documents the
\* filter matches: the first document that matches, with its _id, or None
find_one(coll, hits) ==
    IF hits = {} THEN None
    ELSE LET i == CHOOSE j \in hits : \A k \in hits : j <= k
         IN [_id |-> i, doc |-> coll[i]]

\* database.create_document: insert the document, return its id as a string
create_document(coll, data) ==
    [coll |-> Append(coll, data), id |-> str(Len(coll) + 1)]

\* collection.update_one({"_id": oid}, {"$set": {field: value}})
update_one(coll, oid, field, value) ==
    IF oid \in 1..Len(coll)
    THEN [coll EXCEPT ![oid] = [@ EXCEPT ![field] = value]]
    ELSE coll

-----------------------------------------------------------------------------
(* request_ride, statement by statement *)

\* main.py:91  existing = db["rider"].find_one({"phone": req.rider_phone})
ReqFindRider(riders, req) ==
    find_one(riders, {i \in 1..Len(riders) : riders[i].phone = req.rider_phone})

\* request_ride that never reuses a rider
ReqRiderAlwaysNew(riders, existing, req) ==
    create_document(riders, [name |-> req.rider_name, phone |-> req.rider_phone])

\* main.py:92-95  reuse the rider found, else create one
ReqRider(riders, existing, req) ==
    IF Truthy(existing)
    THEN [coll |-> riders, id |-> str(existing._id)]
    ELSE create_document(riders, [name |-> req.rider_name, phone |-> req.rider_phone])

\* request_ride that takes the first driver, available or not
ReqFindDriverAny(drivers) ==
    find_one(drivers, 1..Len(drivers))

\* main.py:98  driver = db["driver"].find_one({"is_available": True})
ReqFindDriver(drivers) ==
    find_one(drivers, {i \in 1..Len(drivers) : drivers[i].is_available})

\* request_ride that leaves the new ride unmatched although a driver was found
ReqRideUnmatched(rider_id, drv, req) ==
    [rider_id |-> rider_id,
     driver_id |-> None,
     pickup_lat |-> req.pickup.lat,
     pickup_lng |-> req.pickup.lng,
     dropoff_lat |-> req.dropoff.lat,
     dropoff_lng |-> req.dropoff.lng,
     status |-> "requested",
     fare_estimate |-> FareOf[req.pickup, req.dropoff]]

\* request_ride that marks every new ride accepted
ReqRideAlwaysAccepted(rider_id, drv, req) ==
    [rider_id |-> rider_id,
     driver_id |-> IF Truthy(drv) THEN str(drv._id) ELSE None,
     pickup_lat |-> req.pickup.lat,
     pickup_lng |-> req.pickup.lng,
     dropoff_lat |-> req.dropoff.lat,
     dropoff_lng |-> req.dropoff.lng,
     status |-> "accepted",
     fare_estimate |-> FareOf[req.pickup, req.dropoff]]

\* main.py:99-108  ride = Ride(...)
ReqRide(rider_id, drv, req) ==
    [rider_id |-> rider_id,
     driver_id |-> IF Truthy(drv) THEN str(drv._id) ELSE None,
     pickup_lat |-> req.pickup.lat,
     pickup_lng |-> req.pickup.lng,
     dropoff_lat |-> req.dropoff.lat,
     dropoff_lng |-> req.dropoff.lng,
     status |-> IF Truthy(drv) THEN "accepted" ELSE "requested",
     fare_estimate |-> FareOf[req.pickup, req.dropoff]]

\* request_ride that forgets to mark the assigned driver
ReqMarkDriverSkipped(drivers, drv) == drivers

\* main.py:112-113  mark the driver unavailable if one was assigned
ReqMarkDriver(drivers, drv) ==
    IF Truthy(drv)
    THEN update_one(drivers, drv._id, "is_available", FALSE)
    ELSE drivers

\* main.py:115  the response body
ReqBody(ride_id, r) ==
    [ride_id |-> ride_id, status |-> r.status, driver_id |-> r.driver_id]

\* request_ride from call to return on the store <<riders, drivers, rides>>
request_ride(riders, drivers, rides, req) ==
    LET existing == ReqFindRider(riders, req)
        rid == ReqRider(riders, existing, req)
        drv == ReqFindDriver(drivers)
        r == ReqRide(rid.id, drv, req)
        made == create_document(rides, r)
    IN [rider |-> rid.coll,
        driver |-> ReqMarkDriver(drivers, drv),
        ride |-> made.coll,
        code |-> 201,
        body |-> ReqBody(made.id, r)]

-----------------------------------------------------------------------------
(* complete_ride and cancel_ride, statement by statement *)

\* main.py:126 / 140  ride = db["ride"].find_one({"_id": ObjectId(ride_id)})
\* (ride_id is a well-formed id here)
EndFindRide(rides, ride_id) ==
    find_one(rides, {i \in 1..Len(rides) : i = ObjectId(ride_id)})

\* complete_ride that moves the ride to enroute
CompleteSetStatusEnroute(rides, found) ==
    update_one(rides, found._id, "status", "enroute")

\* complete_ride that also detaches the driver from the ride
CompleteSetStatusDetaching(rides, found) ==
    update_one(update_one(rides, found._id, "driver_id", None),
               found._id, "status", "completed")

\* main.py:129  set the status of the ride found to completed
CompleteSetStatus(rides, found) ==
    update_one(rides, found._id, "status", "completed")

\* cancel_ride that puts the ride back to accepted
CancelSetStatusAccepted(rides, found) ==
    update_one(rides, found._id, "status", "accepted")

\* main.py:143  set the status of the ride found to cancelled
CancelSetStatus(rides, found) ==
    update_one(rides, found._id, "status", "cancelled")

\* a release that writes False instead of True
EndFreeDriverWrong(drivers, found) ==
    IF Truthy(found.doc.driver_id) /\ is_valid(found.doc.driver_id)
    THEN update_one(drivers, ObjectId(found.doc.driver_id), "is_available", FALSE)
    ELSE drivers

\* a release that, for a ride without a driver, frees the first driver
EndFreeDriverAny(drivers, found) ==
    IF Truthy(found.doc.driver_id) /\ is_valid(found.doc.driver_id)
    THEN update_one(drivers, ObjectId(found.doc.driver_id), "is_available", TRUE)
    ELSE IF drivers # <<>> THEN update_one(drivers, 1, "is_available", TRUE)
         ELSE drivers

\* a release that flips the driver's availability
EndFreeDriverToggle(drivers, found) ==
    IF Truthy(found.doc.driver_id) /\ is_valid(found.doc.driver_id)
    THEN update_one(drivers, ObjectId(found.doc.driver_id), "is_available",
                    ~drivers[ObjectId(found.doc.driver_id)].is_available)
    ELSE drivers

\* main.py:131-135 / 145-149  free up the driver the ride found refers to
EndFreeDriver(drivers, found) ==
    IF Truthy(found.doc.driver_id) /\ is_valid(found.doc.driver_id)
    THEN update_one(drivers, ObjectId(found.doc.driver_id), "is_available", TRUE)
    ELSE drivers

\* the response to an unhandled InvalidId (500), with the store untouched
InvalidId(riders, drivers, rides) ==
    [rider |-> riders, driver |-> drivers, ride |-> rides,
     code |-> 500, body |-> [detail |-> "Internal Server Error"]]

\* HTTPException(status_code=404, detail="Ride not found")
NotFound(riders, drivers, rides) ==
    [rider |-> riders, driver |-> drivers, ride |-> rides,
     code |-> 404, body |-> [detail |-> "Ride not found"]]

\* complete_ride from call to return
complete_ride(riders, drivers, rides, ride_id) ==
    IF ~is_valid(ride_id) THEN InvalidId(riders, drivers, rides)
    ELSE LET found == EndFindRide(rides, ride_id)
         IN IF ~Truthy(found) THEN NotFound(riders, drivers, rides)
            ELSE [rider |-> riders,
                  driver |-> EndFreeDriver(drivers, found),
                  ride |-> CompleteSetStatus(rides, found),
                  code |-> 200,
                  body |-> [message |-> "Ride completed"]]

\* cancel_ride that does not free the driver
cancel_ride_keeps_driver(riders, drivers, rides, ride_id) ==
    IF ~is_valid(ride_id) THEN InvalidId(riders, drivers, rides)
    ELSE LET found == EndFindRide(rides, ride_id)
         IN IF ~Truthy(found) THEN NotFound(riders, drivers, rides)
            ELSE [rider |-> riders,
                  driver |-> drivers,
                  ride |-> CancelSetStatus(rides, found),
                  code |-> 200,
                  body |-> [message |-> "Ride cancelled"]]

\* cancel_ride from call to return
cancel_ride(riders, drivers, rides, ride_id) ==
    IF ~is_valid(ride_id) THEN InvalidId(riders, drivers, rides)
    ELSE LET found == EndFindRide(rides, ride_id)
         IN IF ~Truthy(found) THEN NotFound(riders, drivers, rides)
            ELSE [rider |-> riders,
                  driver |-> EndFreeDriver(drivers, found),
                  ride |-> CancelSetStatus(rides, found),
                  code |-> 200,
                  body |-> [message |-> "Ride cancelled"]]

\* main.py:134-135 / 148-149  except Exception: pass -- the call in the try
\* block has raised and no driver record was written
EndFreeDriverExcept(drivers, found) == drivers

\* complete_ride without the try around the release: the exception leaves the
\* handler after the status was written
complete_ride_unguarded(riders, drivers, rides, ride_id) ==
    IF ~is_valid(ride_id) THEN InvalidId(riders, drivers, rides)
    ELSE LET found == EndFindRide(rides, ride_id)
         IN IF ~Truthy(found) THEN NotFound(riders, drivers, rides)
            ELSE [rider |-> riders,
                  driver |-> drivers,
                  ride |-> CompleteSetStatus(rides, found),
                  code |-> IF Truthy(found.doc.driver_id) THEN 500 ELSE 200,
                  body |-> [detail |-> "Internal Server Error"]]

\* complete_ride from call to return when the store call of line 133 raises
complete_ride_raised(riders, drivers, rides, ride_id) ==
    IF ~is_valid(ride_id) THEN InvalidId(riders, drivers, rides)
    ELSE LET found == EndFindRide(rides, ride_id)
         IN IF ~Truthy(found) THEN NotFound(riders, drivers, rides)
            ELSE [rider |-> riders,
                  driver |-> EndFreeDriverExcept(drivers, found),
                  ride |-> CompleteSetStatus(rides, found),
                  code |-> 200,
                  body |-> [message |-> "Ride completed"]]

\* cancel_ride from call to return when the store call of line 147 raises
cancel_ride_raised(riders, drivers, rides, ride_id) ==
    IF ~is_valid(ride_id) THEN InvalidId(riders, drivers, rides)
    ELSE LET found == EndFindRide(rides, ride_id)
         IN IF ~Truthy(found) THEN NotFound(riders, drivers, rides)
            ELSE [rider |-> riders,
                  driver |-> EndFreeDriverExcept(drivers, found),
                  ride |-> CancelSetStatus(rides, found),
                  code |-> 200,
                  body |-> [message |-> "Ride cancelled"]]

-----------------------------------------------------------------------------
(* One request at a time *)

Init ==
    /\ rider = <<>>
    /\ driver = <<>>
    /\ ride = <<>>
    /\ threads = EmptyBag

\* the store after a handler has returned `out` (the response itself goes
\* to the client and is not kept)
Returns(out) ==
    /\ rider' = out.rider
    /\ driver' = out.driver
    /\ ride' = out.ride

\* POST /riders
create_rider ==
    \E r \in Rider :
        /\ Len(rider) < MaxRiders
        /\ rider' = create_document(rider, r).coll
        /\ UNCHANGED <<driver, ride, threads>>

\* POST /drivers
create_driver ==
    \E d \in Driver :
        /\ Len(driver) < MaxDrivers
        /\ driver' = create_document(driver, d).coll
        /\ UNCHANGED <<rider, ride, threads>>

\* POST /rides/request
RequestRide ==
    \E req \in RideRequest :
        /\ Len(ride) < MaxRides
        /\ Len(rider) < MaxRiders \/ Truthy(ReqFindRider(rider, req))
        /\ Returns(request_ride(rider, driver, ride, req))
        /\ UNCHANGED threads

\* POST /rides/{ride_id}/complete
CompleteRide ==
    \E ride_id \in RideIdArg :
        /\ Returns(complete_ride(rider, driver, ride, ride_id))
        /\ UNCHANGED threads

\* POST /rides/{ride_id}/cancel
CancelRide ==
    \E ride_id \in RideIdArg :
        /\ Returns(cancel_ride(rider, driver, ride, ride_id))
        /\ UNCHANGED threads

SeqNext ==
    \/ create_rider
    \/ create_driver
    \/ RequestRide
    \/ CompleteRide
    \/ CancelRide

SeqSpec == Init /\ [][SeqNext]_vars

-----------------------------------------------------------------------------
(* One request at a time, every driver registered as available *)

\* POST /drivers with is_available left at its default or sent as true
create_driver_available ==
    \E d \in {e \in Driver : e.is_available} :
        /\ Len(driver) < MaxDrivers
        /\ driver' = create_document(driver, d).coll
        /\ UNCHANGED <<rider, ride, threads>>

\* POST /rides/request
RequestRideAvailable ==
    \E req \in RideRequest :
        /\ Len(ride) < MaxRidesAvailable
        /\ Len(rider) < MaxRiders \/ Truthy(ReqFindRider(rider, req))
        /\ Returns(request_ride(rider, driver, ride, req))
        /\ UNCHANGED threads

SeqAvailableNext ==
    \/ create_rider
    \/ create_driver_available
    \/ RequestRideAvailable
    \/ CompleteRide
    \/ CancelRide

SeqAvailableSpec == Init /\ [][SeqAvailableNext]_vars

-----------------------------------------------------------------------------
(* One request at a time, with a store whose update of the driver may raise *)

\* POST /rides/{ride_id}/complete, the release of the driver raising
CompleteRideRaised ==
    \E ride_id \in RideIdArg :
        /\ Returns(complete_ride_raised(rider, driver, ride, ride_id))
        /\ UNCHANGED threads

\* POST /rides/{ride_id}/cancel, the release of the driver raising
CancelRideRaised ==
    \E ride_id \in RideIdArg :
        /\ Returns(cancel_ride_raised(rider, driver, ride, ride_id))
        /\ UNCHANGED threads

RaisedNext ==
    \/ SeqNext
    \/ CompleteRideRaised
    \/ CancelRideRaised

RaisedSpec == Init /\ [][RaisedNext]_vars

-----------------------------------------------------------------------------
(* Fare quotes: request_ride for trips between any two places, one request *)
(* at a time.                                                              *)

\* the requests of one rider between any two places
TripRequest == [rider_name : Names, rider_phone : {"555-01"},
                pickup : Places, dropoff : Places]

\* POST /rides/request for any trip
RequestTrip ==
    \E req \in TripRequest :
        /\ Len(ride) < MaxQuotes
        /\ Returns(request_ride(rider, driver, ride, req))
        /\ UNCHANGED threads

FareSpec == Init /\ [][RequestTrip]_vars

-----------------------------------------------------------------------------
(* Handlers on worker threads, one store call a step.  `threads` is the    *)
(* bag of the handlers in flight: each is a record of the store call it    *)
(* makes next (pc, named by its line in main.py) and of its local          *)
(* variables.  A handler's first store call starts it, its last one        *)
(* returns; the response goes to the client and is not kept.               *)

\* handlers in flight that will still insert a rider / a ride
PendingRiders ==
    BagCardinality([t \in {u \in BagToSet(threads) : u.pc = "r95"} |-> threads[t]])

PendingRides ==
    BagCardinality([t \in {u \in BagToSet(threads) : u.pc \in {"r95", "r98", "r109"}}
                        |-> threads[t]])

\* a worker is free to take a request
Free == BagCardinality(threads) < Cardinality(Workers)

\* a handler starts and stops at t / moves from t to u / returns from t
Start(t) == threads' = threads (+) SetToBag({t})

Goto(t, u) == threads' = (threads (-) SetToBag({t})) (+) SetToBag({u})

Return(t) == threads' = threads (-) SetToBag({t})

\* the fields of the request that the handler still reads once it has the rider
Trip(req) == [pickup |-> req.pickup, dropoff |-> req.dropoff]

\* what complete_ride / cancel_ride read of the ride document they hold:
\* ride["_id"] and ride.get("driver_id")
Read(found) == [_id |-> found._id, doc |-> [driver_id |-> found.doc.driver_id]]

\* POST /riders on a worker (one store call)
PostRider ==
    /\ Free
    /\ Len(rider) + PendingRiders < MaxRidersW
    /\ \E r \in Rider : rider' = create_document(rider, r).coll
    /\ UNCHANGED <<driver, ride, threads>>

\* POST /drivers on a worker (one store call)
PostDriver ==
    /\ Free
    /\ Len(driver) < MaxDriversW
    /\ \E d \in Driver : driver' = create_document(driver, d).coll
    /\ UNCHANGED <<rider, ride, threads>>

\* request_ride, main.py:91
Req91 ==
    /\ Free
    /\ Len(ride) + PendingRides < MaxRidesW
    /\ \E req \in RideRequest :
        LET existing == ReqFindRider(rider, req)
        IN /\ Truthy(existing) \/ Len(rider) + PendingRiders < MaxRidersW
           /\ IF Truthy(existing)
              THEN Start([pc |-> "r98", req |-> Trip(req),
                          rider_id |-> ReqRider(rider, existing, req).id])
              ELSE Start([pc |-> "r95", req |-> req])
    /\ UNCHANGED <<rider, driver, ride>>

\* request_ride, main.py:95 (no rider was found)
Req95 ==
    \E t \in BagToSet(threads) :
        /\ t.pc = "r95"
        /\ LET made == ReqRider(rider, None, t.req)
           IN /\ rider' = made.coll
              /\ Goto(t, [pc |-> "r98", req |-> Trip(t.req), rider_id |-> made.id])
        /\ UNCHANGED <<driver, ride>>

\* request_ride, main.py:98
Req98 ==
    \E t \in BagToSet(threads) :
        /\ t.pc = "r98"
        /\ Goto(t, [pc |-> "r109", req |-> t.req, rider_id |-> t.rider_id,
                    driver |-> ReqFindDriver(driver)])
        /\ UNCHANGED <<rider, driver, ride>>

\* request_ride, main.py:99-109, and the return when no driver was found
Req109 ==
    \E t \in BagToSet(threads) :
        /\ t.pc = "r109"
        /\ LET made == create_document(ride, ReqRide(t.rider_id, t.driver, t.req))
           IN /\ ride' = made.coll
              /\ IF Truthy(t.driver)
                 THEN Goto(t, [pc |-> "r113", driver |-> t.driver, ride_id |-> made.id])
                 ELSE Return(t)
        /\ UNCHANGED <<rider, driver>>

\* request_ride, main.py:113, and the return
Req113 ==
    \E t \in BagToSet(threads) :
        /\ t.pc = "r113"
        /\ driver' = ReqMarkDriver(driver, t.driver)
        /\ Return(t)
        /\ UNCHANGED <<rider, ride>>

\* complete_ride / cancel_ride, main.py:126-128 / 140-142: InvalidId and
\* NotFound return at once
End126 ==
    /\ Free
    /\ \E op \in {"complete_ride", "cancel_ride"}, ride_id \in RideIdArg :
        IF ~is_valid(ride_id) THEN UNCHANGED threads
        ELSE LET found == EndFindRide(ride, ride_id)
             IN IF ~Truthy(found) THEN UNCHANGED threads
                ELSE Start([pc |-> "e129", op |-> op, ride |-> Read(found)])
    /\ UNCHANGED <<rider, driver, ride>>

\* complete_ride / cancel_ride, main.py:129 / 143, and the return when the
\* ride found has no driver
End129 ==
    \E t \in BagToSet(threads) :
        /\ t.pc = "e129"
        /\ ride' = IF t.op = "complete_ride"
                   THEN CompleteSetStatus(ride, t.ride)
                   ELSE CancelSetStatus(ride, t.ride)
        /\ IF Truthy(t.ride.doc.driver_id)
           THEN Goto(t, [pc |-> "e133", ride |-> t.ride])
           ELSE Return(t)
        /\ UNCHANGED <<rider, driver>>

\* complete_ride / cancel_ride, main.py:133 / 147, and the return
End133 ==
    \E t \in BagToSet(threads) :
        /\ t.pc = "e133"
        /\ driver' = EndFreeDriver(driver, t.ride)
        /\ Return(t)
        /\ UNCHANGED <<rider, ride>>

Next ==
    \/ PostRider
    \/ PostDriver
    \/ Req91
    \/ Req95
    \/ Req98
    \/ Req109
    \/ Req113
    \/ End126
    \/ End129
    \/ End133

Spec == Init /\ [][Next]_vars

-----------------------------------------------------------------------------
(* Interleaved handlers when every driver is registered as available and   *)
(* rider records come from request_ride alone: each request inserts at     *)
(* most one rider, so the rides bound bounds the riders too.               *)

\* POST /drivers on a worker, is_available left at its default or sent as true
PostDriverAvailable ==
    /\ Free
    /\ Len(driver) < MaxDriversW
    /\ \E d \in {e \in Driver : e.is_available} :
           driver' = create_document(driver, d).coll
    /\ UNCHANGED <<rider, ride, threads>>

\* request_ride, main.py:91
Req91Only ==
    /\ Free
    /\ Len(ride) + PendingRides < MaxRidesW
    /\ \E req \in RideRequest :
        LET existing == ReqFindRider(rider, req)
        IN IF Truthy(existing)
           THEN Start([pc |-> "r98", req |-> Trip(req),
                       rider_id |-> ReqRider(rider, existing, req).id])
           ELSE Start([pc |-> "r95", req |-> req])
    /\ UNCHANGED <<rider, driver, ride>>

RequestOnlyNext ==
    \/ PostDriverAvailable
    \/ Req91Only
    \/ Req95
    \/ Req98
    \/ Req109
    \/ Req113
    \/ End126
    \/ End129
    \/ End133

RequestOnlySpec == Init /\ [][RequestOnlyNext]_vars

-----------------------------------------------------------------------------
(* Properties.  The contracts of the handlers are stated on what a handler *)
(* returns when it is called in a reachable state and runs to its return   *)
(* with nothing in between.                                                *)

\* the ids of the drivers with is_available = True
AvailableDrivers(drivers) == {i \in 1..Len(drivers) : drivers[i].is_available}

\* ride_id resolves to a ride of the store
Resolves(rides, ride_id) == is_valid(ride_id) /\ ObjectId(ride_id) \in 1..Len(rides)

\* the rides in status accepted that refer to driver d
ActiveRidesOf(d) ==
    {i \in 1..Len(ride) : ride[i].status = "accepted" /\ ride[i].driver_id = str(d)}

Last(seq) == seq[Len(seq)]

\* C1: request_ride, run alone with at least one driver available, adds one
\* ride in status accepted whose driver (also the driver_id returned) was
\* available before the call and is unavailable after it.
C1_RequestAssignsAvailableDriver ==
    \A req \in RideRequest :
        LET out == request_ride(rider, driver, ride, req)
            new == Last(out.ride)
        IN AvailableDrivers(driver) # {} =>
            /\ Len(out.ride) = Len(ride) + 1
            /\ new.status = "accepted"
            /\ out.body.status = "accepted"
            /\ out.body.driver_id = new.driver_id
            /\ is_valid(new.driver_id)
            /\ ObjectId(new.driver_id) \in AvailableDrivers(driver)
            /\ ObjectId(new.driver_id) \notin AvailableDrivers(out.driver)

\* a ride was accepted and its driver is now unavailable
C1_Witness ==
    /\ Len(ride) >= 1
    /\ Last(ride).status = "accepted"
    /\ is_valid(Last(ride).driver_id)
    /\ ~driver[ObjectId(Last(ride).driver_id)].is_available

\* C2: request_ride with no driver available adds exactly one ride, in
\* status requested with no driver, returns status requested and driver_id
\* null, and leaves every driver as it was.
C2_RequestWithoutDriver ==
    \A req \in RideRequest :
        LET out == request_ride(rider, driver, ride, req)
            new == Last(out.ride)
        IN AvailableDrivers(driver) = {} =>
            /\ Len(out.ride) = Len(ride) + 1
            /\ SubSeq(out.ride, 1, Len(ride)) = ride
            /\ new.status = "requested"
            /\ new.driver_id = None
            /\ out.body.status = "requested"
            /\ out.body.driver_id = None
            /\ out.driver = driver

\* a ride was created unmatched while a registered driver was busy
C2_Witness ==
    /\ Len(driver) >= 1
    /\ AvailableDrivers(driver) = {}
    /\ Len(ride) >= 1
    /\ Last(ride).status = "requested"
    /\ Last(ride).driver_id = None

\* C3: complete_ride on the id of an existing ride succeeds, leaves the
\* ride completed and, if the ride has a driver, that driver available.
C3_CompleteKnownRide ==
    \A ride_id \in RideIdArg :
        LET out == complete_ride(rider, driver, ride, ride_id)
            i == ObjectId(ride_id)
        IN Resolves(ride, ride_id) =>
            /\ out.code = 200
            /\ out.ride[i].status = "completed"
            /\ Truthy(ride[i].driver_id) =>
                ObjectId(ride[i].driver_id) \in AvailableDrivers(out.driver)

\* a ride with a driver is completed and the driver is available again
C3_Witness ==
    \E i \in 1..Len(ride) :
        /\ ride[i].status = "completed"
        /\ is_valid(ride[i].driver_id)
        /\ driver[ObjectId(ride[i].driver_id)].is_available

\* C4: from the same state and ride id, cancel_ride and complete_ride have
\* the same outcome and leave the same store, but for the status of the
\* target ride: cancelled instead of completed.
C4_CancelMirrorsComplete ==
    \A ride_id \in RideIdArg :
        LET done == complete_ride(rider, driver, ride, ride_id)
            gone == cancel_ride(rider, driver, ride, ride_id)
        IN /\ gone.code = done.code
           /\ gone.rider = done.rider
           /\ gone.driver = done.driver
           /\ done.code # 200 => gone.ride = done.ride
           /\ done.code = 200 =>
                /\ done.ride[ObjectId(ride_id)].status = "completed"
                /\ gone.ride = [done.ride EXCEPT ![ObjectId(ride_id)].status = "cancelled"]

\* a ride with a driver is cancelled and the driver is available again
C4_Witness ==
    \E i \in 1..Len(ride) :
        /\ ride[i].status = "cancelled"
        /\ is_valid(ride[i].driver_id)
        /\ driver[ObjectId(ride[i].driver_id)].is_available

\* C5: complete_ride and cancel_ride with an id that resolves to no ride
\* fail with NotFound (404) and leave every record unchanged.
C5_UnknownRideNotFound ==
    \A ride_id \in RideIdArg :
        ~Resolves(ride, ride_id) =>
            \A out \in {complete_ride(rider, driver, ride, ride_id),
                        cancel_ride(rider, driver, ride, ride_id)} :
                /\ out.code = 404
                /\ <<out.rider, out.driver, out.ride>> = store

\* C6: of two request_ride calls with the same phone number, one after the
\* other, the second creates no rider and its ride has the rider id of the
\* first call's ride.
C6_SamePhoneSameRider ==
    \A first, second \in RideRequest :
        LET one == request_ride(rider, driver, ride, first)
            two == request_ride(one.rider, one.driver, one.ride, second)
        IN first.rider_phone = second.rider_phone =>
            /\ two.rider = one.rider
            /\ Last(two.ride).rider_id = Last(one.ride).rider_id

\* two consecutive rides of one rider, whose record was created once
C6_Witness ==
    /\ Len(ride) >= 2
    /\ ride[Len(ride)].rider_id = ride[Len(ride) - 1].rider_id
    /\ Len(rider) = 1

\* the handlers in flight that stand before line 113, each paired with
\* another one that holds the same driver
SameDriverPairs ==
    {pair \in BagToSet(threads) \X BagToSet(threads) :
        /\ pair[1].pc = "r113" /\ pair[2].pc = "r113"
        /\ pair[1] # pair[2] \/ threads[pair[1]] > 1
        /\ pair[1].driver._id = pair[2].driver._id}

\* C7: two request_ride calls can both read the one available driver
\* before either marks it: whenever two handlers both stand before line 113
\* holding the same driver, that driver is still available and each of
\* them has created its own ride for that driver.
C7_BothReadBeforeEitherWrites ==
    \A pair \in SameDriverPairs :
        /\ pair[1].driver._id \in AvailableDrivers(driver)
        /\ pair[1].ride_id # pair[2].ride_id
        /\ \A t \in {pair[1], pair[2]} :
            /\ Resolves(ride, t.ride_id)
            /\ ride[ObjectId(t.ride_id)].driver_id = str(pair[1].driver._id)

\* both calls have read the only available driver, neither has written,
\* and the two rides they created are both accepted with that driver
C7_Witness ==
    \E pair \in SameDriverPairs :
        /\ AvailableDrivers(driver) = {pair[1].driver._id}
        /\ ActiveRidesOf(pair[1].driver._id)
            = {ObjectId(pair[1].ride_id), ObjectId(pair[2].ride_id)}

\* C8: every driver with is_available = False is referenced by exactly one
\* ride in status accepted.
C8_UnavailableHasOneActiveRide ==
    \A d \in 1..Len(driver) :
        ~driver[d].is_available => Cardinality(ActiveRidesOf(d)) = 1

\* C9: once a ride is completed or cancelled, no operation changes its
\* status.
C9_TerminalStatusStays ==
    [][\A i \in 1..Len(ride) :
        ride[i].status \in {"completed", "cancelled"} =>
            ride'[i].status = ride[i].status]_vars

\* C10: every ride's status is requested, accepted, completed or cancelled,
\* never enroute.
C10_NeverEnroute ==
    \A i \in 1..Len(ride) :
        ride[i].status \in {"requested", "accepted", "completed", "cancelled"}

\* a ride that was created accepted and is completed, and a ride that was
\* created requested and is cancelled: every writer of a status has written
C10_Witness ==
    /\ \E i \in 1..Len(ride) :
          ride[i].status = "completed" /\ Truthy(ride[i].driver_id)
    /\ \E i \in 1..Len(ride) :
          ride[i].status = "cancelled" /\ ride[i].driver_id = None

\* the distance of ride r's trip, in metres
TripMetres(r) ==
    _haversine_km([lat |-> r.pickup_lat, lng |-> r.pickup_lng],
                  [lat |-> r.dropoff_lat, lng |-> r.dropoff_lng])

\* C11: the fare of every ride is 2.5 + 1.2 * distance rounded to two
\* decimals (the cent nearest to it; compared in 1/10000), and a ride of a
\* larger distance never has a smaller fare.
C11_FareRoundedAndMonotone ==
    /\ \A i \in 1..Len(ride) :
        Abs(100 * ride[i].fare_estimate - (25000 + 12 * TripMetres(ride[i]))) <= 50
    /\ \A i, j \in 1..Len(ride) :
        TripMetres(ride[i]) <= TripMetres(ride[j]) =>
            ride[i].fare_estimate <= ride[j].fare_estimate

\* two rides of different distances, the shorter one's fare rounded up
C11_Witness ==
    \E i, j \in 1..Len(ride) :
        /\ TripMetres(ride[i]) < TripMetres(ride[j])
        /\ ride[i].fare_estimate < ride[j].fare_estimate
        /\ 100 * ride[i].fare_estimate > 25000 + 12 * TripMetres(ride[i])

\* C12: in a run of whole handlers a driver's availability goes from true to
\* false only in a step that adds a ride referring to that driver, and from
\* false to true only in a step that sets the status of a ride referring to
\* that driver to completed or cancelled; no other field of a driver record
\* changes and no driver record disappears.
C12_AvailabilityChanges ==
    [][/\ Len(driver') >= Len(driver)
       /\ \A d \in 1..Len(driver) :
            /\ driver'[d] = [driver[d] EXCEPT !.is_available = driver'[d].is_available]
            /\ (driver[d].is_available /\ ~driver'[d].is_available) =>
                    /\ Len(ride') = Len(ride) + 1
                    /\ Last(ride').driver_id = str(d)
                    /\ Last(ride').status = "accepted"
            /\ (~driver[d].is_available /\ driver'[d].is_available) =>
                    \E i \in 1..Len(ride) :
                        /\ ride[i].driver_id = str(d)
                        /\ \E s \in {"completed", "cancelled"} :
                               ride' = [ride EXCEPT ![i].status = s]]_vars

\* a driver released by the end of one ride and taken again by a later ride
C12_Witness ==
    \E i, j \in 1..Len(ride) :
        /\ i < j
        /\ ride[i].status \in {"completed", "cancelled"}
        /\ ride[j].status = "accepted"
        /\ Truthy(ride[i].driver_id)
        /\ ride[j].driver_id = ride[i].driver_id
        /\ ~driver[ObjectId(ride[j].driver_id)].is_available

\* C13: complete_ride on a ride that is already completed returns 200, leaves
\* it completed and leaves the driver it refers to available; and
\* complete_ride applied twice to any ride leaves the store that one
\* application leaves.
C13_CompleteTwice ==
    \A ride_id \in RideIdArg :
        Resolves(ride, ride_id) =>
            LET i == ObjectId(ride_id)
                once == complete_ride(rider, driver, ride, ride_id)
                twice == complete_ride(once.rider, once.driver, once.ride, ride_id)
            IN /\ twice.code = 200
               /\ twice.rider = once.rider
               /\ twice.driver = once.driver
               /\ twice.ride = once.ride
               /\ ride[i].status = "completed" =>
                    /\ once.code = 200
                    /\ once.ride = ride
                    /\ Truthy(ride[i].driver_id) =>
                         once.driver[ObjectId(ride[i].driver_id)].is_available

\* a completed ride whose driver is unavailable, so that completing it again
\* releases the driver once more
C13_Witness ==
    \E i \in 1..Len(ride) :
        /\ ride[i].status = "completed"
        /\ Truthy(ride[i].driver_id)
        /\ ~driver[ObjectId(ride[i].driver_id)].is_available

\* C14: when the release of the driver raises inside complete_ride or
\* cancel_ride, the handler still returns 200 with its message, the ride is
\* left completed (cancelled), and no driver record has changed.
C14_ReleaseFailureSwallowed ==
    \A ride_id \in RideIdArg :
        (Resolves(ride, ride_id) /\ Truthy(ride[ObjectId(ride_id)].driver_id)) =>
            LET i == ObjectId(ride_id)
                done == complete_ride_raised(rider, driver, ride, ride_id)
                off == cancel_ride_raised(rider, driver, ride, ride_id)
            IN /\ done.code = 200
               /\ done.body = [message |-> "Ride completed"]
               /\ done.ride[i].status = "completed"
               /\ done.driver = driver
               /\ off.code = 200
               /\ off.body = [message |-> "Ride cancelled"]
               /\ off.ride[i].status = "cancelled"
               /\ off.driver = driver

\* a driver still unavailable although every ride that refers to it has
\* ended: the release has raised
C14_Witness ==
    \E d \in 1..Len(driver) :
        /\ ~driver[d].is_available
        /\ ActiveRidesOf(d) = {}
        /\ \E i \in 1..Len(ride) :
               /\ ride[i].driver_id = str(d)
               /\ ride[i].status \in {"completed", "cancelled"}

\* C15: in every state reached with handlers interleaving, a ride in status
\* requested has driver_id None, and a ride in status accepted has the id of
\* a driver record of the store as its driver_id.
C15_StatusMatchesDriverReference ==
    \A i \in 1..Len(ride) :
        /\ ride[i].status = "requested" => ride[i].driver_id = None
        /\ ride[i].status = "accepted" =>
              /\ Truthy(ride[i].driver_id)
              /\ is_valid(ride[i].driver_id)
              /\ ObjectId(ride[i].driver_id) \in 1..Len(driver)

\* a requested ride without a driver next to an accepted ride with one
C15_Witness ==
    \E i, j \in 1..Len(ride) :
        /\ ride[i].status = "requested" /\ ride[i].driver_id = None
        /\ ride[j].status = "accepted" /\ Truthy(ride[j].driver_id)

\* C16: with one handler at a time and every driver registered as available,
\* no two rides in status accepted refer to the same driver.
C16_NoSharedDriverSequential ==
    \A i, j \in 1..Len(ride) :
        (/\ i # j
         /\ ride[i].status = "accepted"
         /\ ride[j].status = "accepted"
         /\ Truthy(ride[i].driver_id)) => ride[i].driver_id # ride[j].driver_id

\* C17: with handlers interleaving and every driver registered as available,
\* in every state with no handler in flight each unavailable driver is
\* referred to by at least one ride in status accepted.
C17_UnavailableHasActiveRideAtRest ==
    threads = EmptyBag =>
        \A d \in 1..Len(driver) :
            ~driver[d].is_available => ActiveRidesOf(d) # {}

\* C18: a ride without a driver keeps driver_id None and is never in status
\* accepted afterwards, and a ride leaves status requested only in a step that
\* writes completed or cancelled to the status of that ride alone.
C18_RequestedStaysUnmatched ==
    [][/\ Len(ride') >= Len(ride)
       /\ \A i \in 1..Len(ride) :
            /\ ride[i].driver_id = None =>
                  /\ ride'[i].driver_id = None
                  /\ ride'[i].status # "accepted"
            /\ (ride[i].status = "requested" /\ ride'[i].status # "requested") =>
                  \E s \in {"completed", "cancelled"} :
                      ride' = [ride EXCEPT ![i].status = s]]_vars

\* a ride still requested and unmatched while a driver is available, next to
\* a ride that was created unmatched and has been ended
C18_Witness ==
    \E i, j \in 1..Len(ride) :
        /\ ride[i].status = "requested" /\ ride[i].driver_id = None
        /\ ride[j].status \in {"completed", "cancelled"} /\ ride[j].driver_id = None
        /\ AvailableDrivers(driver) # {}

\* the stores `after` and `before` differ at most in the status of ride i and
\* in the availability of the driver that ride refers to
OnlyEnds(before, after, i) ==
    /\ after.rider = before.rider
    /\ Len(after.ride) = Len(before.ride)
    /\ \A j \in 1..Len(before.ride) : j # i => after.ride[j] = before.ride[j]
    /\ after.ride[i] = [before.ride[i] EXCEPT !.status = after.ride[i].status]
    /\ Len(after.driver) = Len(before.driver)
    /\ \A d \in 1..Len(before.driver) :
          IF before.ride[i].driver_id = str(d)
          THEN after.driver[d] =
                   [before.driver[d] EXCEPT !.is_available = after.driver[d].is_available]
          ELSE after.driver[d] = before.driver[d]

\* C19: complete_ride and cancel_ride on a ride of the store leave every
\* rider, every other ride, every field of the ride but its status, and every
\* driver but the one the ride refers to as they were, and of that driver
\* they change the availability at most; for a ride without a driver no
\* driver record changes.
C19_EndChangesNothingElse ==
    \A ride_id \in RideIdArg :
        Resolves(ride, ride_id) =>
            LET i == ObjectId(ride_id)
                before == [rider |-> rider, driver |-> driver, ride |-> ride]
                done == complete_ride(rider, driver, ride, ride_id)
                off == cancel_ride(rider, driver, ride, ride_id)
            IN /\ OnlyEnds(before, done, i)
               /\ OnlyEnds(before, off, i)
               /\ ride[i].driver_id = None =>
                     (done.driver = driver /\ off.driver = driver)

\* an ended ride with a driver that is available again, next to another
\* rider's ride that is requested without a driver
C19_Witness ==
    /\ Len(rider) >= 2
    /\ \E i, k \in 1..Len(ride) :
          /\ ride[i].status \in {"completed", "cancelled"}
          /\ Truthy(ride[i].driver_id)
          /\ driver[ObjectId(ride[i].driver_id)].is_available
          /\ ride[k].status = "requested"
          /\ ride[k].driver_id = None
          /\ ride[k].rider_id # ride[i].rider_id

\* C20: when rider records come from request_ride alone, no two rider
\* records have the same phone number.
C20_OneRiderPerPhone ==
    \A i, j \in 1..Len(rider) :
        i # j => rider[i].phone # rider[j].phone

====
